---- MODULE Spec2Model ----
(***************************************************************************)
(* The user / credential / chat data layer of serge: the CRUD functions of *)
(* serge/crud.py, the seeding routine of serge/database.py and the view    *)
(* schema of serge/schema/user.py, over three tables (users, auth, chats). *)
(*                                                                         *)
(* Three specifications share the variables:                               *)
(*   Spec      calls run one after another, each call one atomic step;     *)
(*   SpecConc  two request handlers run create_user step by step, each on  *)
(*             its own session, against the shared tables;                 *)
(*   SpecMap   the Mappers and User.to_public_dict applied to inputs drawn *)
(*             from bounded sets.                                          *)
(***************************************************************************)
EXTENDS Integers, Sequences, FiniteSets, TLC

VARIABLES
    users,      \* table users: sequence of rows in storage order
    auths,      \* table of UserAuth rows, in storage order
    chats,      \* table of Chat rows, in storage order
    last,       \* the last completed call of Spec: [op, note, ret, secret]
    pc,         \* SpecConc: where each handler stands inside create_user
    req,        \* SpecConc: the UserAuth request object each handler holds
    sess,       \* SpecConc: the objects added to each handler's session
    out,        \* SpecConc: what each handler's create_user returned
    fresh,      \* SpecConc: whether the username had no row when the call began
    m_user,     \* SpecMap: a persisted User with its loaded collections
    m_view,     \* SpecMap: a User view
    m_back,     \* SpecMap: the result of user_view_to_db
    m_pub,      \* SpecMap: the result of to_public_dict
    m_step      \* SpecMap: the last mapper step taken

tables == <<users, auths, chats>>
concvars == <<pc, req, sess, out, fresh>>
mapvars == <<m_user, m_view, m_back, m_pub, m_step>>
vars == <<users, auths, chats, last, pc, req, sess, out, fresh,
          m_user, m_view, m_back, m_pub, m_step>>

(***************************************************************************)
(* Bounds of the model.                                                    *)
(***************************************************************************)
MaxId == 2          \* the identifiers uuid4() and requests draw from: 1..MaxId
MaxChats == 2       \* rows the chats table may hold
MaxUsers == 3       \* rows the users table may hold

Ids == 1..MaxId
Usernames == {"system", "alice"}
Secrets == {"pw", "$2b$pw"}      \* plaintext secrets of requests
AuthTypes == {0, 1, 2}
FullNames == {"", "Default User"}
ChatIds == {"c1", "c2"}
ChatOwners == {"alice"}

DefaultPrompt == "Below is an instruction"
MASK == "********"

NoneVal == [kind |-> "None"]
Raised(e) == [kind |-> "Raised", err |-> e]
Returned(v) == [kind |-> "Value", val |-> v]

ScalarFields ==
    {"id", "username", "is_active", "email", "full_name", "theme_light",
     "default_prompt"}

(***************************************************************************)
(* Storage.                                                                *)
(***************************************************************************)
\* users.id is the primary key of the users table.
PrimaryKeyOk(us) ==
    \A i, j \in 1..Len(us) : us[i].id = us[j].id => i = j

\* A users table without the constraint on username.
UniqueUsernameOk_Unenforced(us) == TRUE

\* users.username carries a UNIQUE constraint.
UniqueUsernameOk(us) ==
    \A i, j \in 1..Len(us) : us[i].username = us[j].username => i = j

\* What a commit that leaves the users table as us reports.
IntegrityError(us) ==
    IF ~PrimaryKeyOk(us) THEN "users.id"
    ELSE IF ~UniqueUsernameOk(us) THEN "users.username"
    ELSE "ok"

\* The relationship User.auth: the UserAuth rows whose user_id is the user's id.
AuthOf(row, as) == SelectSeq(as, LAMBDA a : a.user_id = row.id)

\* The relationship User.chats: the Chat rows the user owns.
ChatsOf(row, cs) == SelectSeq(cs, LAMBDA c : c.owner = row.username)

\* A users row loaded as an ORM object, with both relationships.
Loaded(row, as, cs) ==
    [k \in ScalarFields \cup {"auth", "chats"} |->
        IF k = "auth" THEN AuthOf(row, as)
        ELSE IF k = "chats" THEN ChatsOf(row, cs)
        ELSE row[k]]

\* The columns of an ORM User object.
Columns(obj) == [k \in ScalarFields |-> obj[k]]

\* query(...).filter(username == name).first(): position of the first match, 0 if none.
FirstByUsername(us, name) ==
    LET I == {i \in 1..Len(us) : us[i].username = name}
    IN  IF I = {} THEN 0 ELSE CHOOSE i \in I : \A j \in I : i <= j

\* uuid.uuid4(): an identifier no row and no session object carries yet.
uuid4(us, as, pending) ==
    Ids \ ({us[i].id : i \in 1..Len(us)} \cup {as[i].user_id : i \in 1..Len(as)}
           \cup pending)

\* get_password_hash: a one-way hash, printed with the scheme's prefix.
get_password_hash(s) == "$2b$" \o s

(***************************************************************************)
(* Mappers (crud.py).                                                      *)
(***************************************************************************)
SeqMap(f(_), s) == [i \in 1..Len(s) |-> f(s[i])]

user_db_to_view(u, include_auth) ==
    IF u = NoneVal THEN NoneVal
    ELSE LET auths_ == IF include_auth THEN u.auth ELSE <<>>
             chats_ == u.chats
         IN  [k \in ScalarFields \cup {"auth", "chats"} |->
                IF k = "auth"
                THEN SeqMap(LAMBDA x : [username |-> u.username,
                                        secret |-> x.secret,
                                        auth_type |-> x.auth_type], auths_)
                ELSE IF k = "chats"
                THEN SeqMap(LAMBDA x : [chat_id |-> x.chat_id,
                                        owner |-> x.owner], chats_)
                ELSE u[k]]

user_auth_view_to_db(ua, user_id) ==
    IF ua = NoneVal THEN NoneVal
    ELSE [secret |-> ua.secret, auth_type |-> ua.auth_type, user_id |-> user_id]

\* user_schema.User(id=..., username=...): the other fields take the schema's defaults.
NewUserView(id, username) ==
    [id |-> id, username |-> username, is_active |-> TRUE, email |-> "",
     full_name |-> "", theme_light |-> FALSE, default_prompt |-> DefaultPrompt,
     auth |-> <<>>, chats |-> <<>>]

\* user_model.User(**u.dict()): u.dict() turns the nested views into plain
\* dicts, and a relationship collection accepts mapped objects only.
ModelUser(d) ==
    IF d.auth # <<>> \/ d.chats # <<>> THEN Raised("AttributeError")
    ELSE Returned([k \in ScalarFields \cup {"auth", "chats"} |->
                    IF k \in {"auth", "chats"} THEN <<>> ELSE d[k]])

\* user_view_to_db(u, ua), new_id being what uuid4() yields when u is absent.
user_view_to_db(u, ua, new_id) ==
    IF u = NoneVal /\ ua = NoneVal THEN Raised("AssertionError")
    ELSE LET u1 == IF u = NoneVal THEN NewUserView(new_id, ua.username) ELSE u
             auth == IF ua # NoneVal THEN user_auth_view_to_db(ua, u1.id) ELSE <<>>
             user == ModelUser(u1)
         IN  IF user.kind = "Raised" THEN user
             ELSE LET user1 == IF auth # <<>>
                               THEN [user.val EXCEPT !.auth = Append(@, auth)]
                               ELSE user.val
                      user2 == [user1 EXCEPT !.chats =
                                  @ \o SeqMap(LAMBDA c : [chat_id |-> c.chat_id,
                                                          owner |-> "NULL"], u1.chats)]
                  IN  Returned([user |-> user2, auth |-> auth])

(***************************************************************************)
(* crud.py, database.py: the calls, each as one step.                      *)
(***************************************************************************)
get_user(us, as, cs, username) ==
    LET i == FirstByUsername(us, username)
    IN  user_db_to_view(IF i = 0 THEN NoneVal ELSE Loaded(us[i], as, cs), TRUE)

\* A create_user that stores the secret as it came.
HashedRequest_Plain(ua) == ua

\* create_user line 69: the request's secret is replaced by its hash, in place.
HashedRequest(ua) == [ua EXCEPT !.secret = get_password_hash(ua.secret)]

\* A create_user without its pre-check.
AlreadyExists_Never(us, as, cs, ua) == FALSE

\* create_user lines 62-65: the existence pre-check.
AlreadyExists(us, as, cs, ua) == get_user(us, as, cs, ua.username) # NoneVal

\* A create_user whose match statement lets every auth type through.
Supported_Any(ua) == TRUE

\* create_user lines 67-71: whether the auth type is supported.
Supported(ua) == ua.auth_type = 1

\* The requests create_user is called with: every username and auth type with
\* an ordinary password, and one password that already looks like a hash.
AuthRequests ==
    [username : Usernames, secret : {"pw"}, auth_type : AuthTypes]
        \cup {[username |-> "alice", secret |-> "$2b$pw", auth_type |-> 1]}

\* The record of a completed call: the branch taken (note), what was returned
\* or raised (ret), and the secret the caller's request object holds afterwards.
Done(op, note, ret, secret) ==
    [op |-> op, note |-> note, ret |-> ret, secret |-> secret]

\* create_user lines 73-77 on tables us, as, cs: the tables after the commit
\* and what the call returns, or the tables unchanged and what the commit raises.
CreateCommit(us, as, cs, m) ==
    LET us2 == Append(us, Columns(m.user))
        as2 == as \o m.user.auth
        e == IntegrityError(us2)
    IN  IF e = "ok"
        THEN [users |-> us2, auths |-> as2,
              ret |-> Returned(user_db_to_view(Loaded(Columns(m.user), as2, cs), FALSE))]
        ELSE [users |-> us, auths |-> as, ret |-> Raised(e)]

create_user(ua) ==
    /\ Len(users) < MaxUsers
    /\ IF AlreadyExists(users, auths, chats, ua)
       THEN /\ UNCHANGED tables
            /\ last' = Done("create_user", "exists", NoneVal, ua.secret)
       ELSE IF ~Supported(ua)
       THEN /\ UNCHANGED tables
            /\ last' = Done("create_user", "unsupported", NoneVal, ua.secret)
       ELSE \E new_id \in uuid4(users, auths, {}) :
              LET ua1 == HashedRequest(ua)
                  m == user_view_to_db(NoneVal, ua1, new_id).val
                  c == CreateCommit(users, auths, chats, m)
              IN  /\ users' = c.users
                  /\ auths' = c.auths
                  /\ UNCHANGED chats
                  /\ last' = Done("create_user",
                                  IF c.ret.kind = "Raised" THEN "raised" ELSE "created",
                                  c.ret, ua1.secret)
    /\ UNCHANGED <<concvars, mapvars>>

\* update_user lines 101-104: every field of u.dict() but auth and chats is set on the row.
UpdatedRow(row, u) == [k \in ScalarFields |-> u[k]]

UpdateViews ==
    {[id |-> i, username |-> n, is_active |-> TRUE, email |-> "", full_name |-> "",
      theme_light |-> FALSE, default_prompt |-> DefaultPrompt,
      auth |-> IF l THEN <<[username |-> n, secret |-> "pw", auth_type |-> 1]>> ELSE <<>>,
      chats |-> IF l THEN <<[chat_id |-> "c1", owner |-> n]>> ELSE <<>>] :
        i \in Ids, n \in Usernames, l \in BOOLEAN}

update_user(u) ==
    /\ LET i == FirstByUsername(users, u.username)
       IN  IF i = 0
           THEN /\ UNCHANGED tables
                /\ last' = Done("update_user", "absent", NoneVal, "")
           ELSE LET us2 == [users EXCEPT ![i] = UpdatedRow(@, u)]
                    e == IntegrityError(us2)
                IN  IF e = "ok"
                    THEN /\ users' = us2
                         /\ UNCHANGED <<auths, chats>>
                         /\ last' = Done("update_user", "updated", Returned(us2[i]), "")
                    ELSE /\ UNCHANGED tables
                         /\ last' = Done("update_user", "raised", Raised(e), "")
    /\ UNCHANGED <<concvars, mapvars>>

ChatRequests == [chat_id : ChatIds, owner : ChatOwners]

create_chat(chat) ==
    /\ Len(chats) < MaxChats
    /\ chats' = Append(chats, [chat_id |-> chat.chat_id, owner |-> chat.owner])
    /\ UNCHANGED <<users, auths>>
    /\ last' = Done("create_chat", "created", NoneVal, "")
    /\ UNCHANGED <<concvars, mapvars>>

\* query(...).filter(chat_id == id): the positions that match.
MatchingChats(cs, chat_id) == {i \in 1..Len(cs) : cs[i].chat_id = chat_id}

\* .first() in place of .one(): the first match, and db.delete(None) raises.
One_First(I) ==
    IF I = {} THEN Raised("UnmappedInstanceError")
    ELSE Returned(CHOOSE i \in I : \A j \in I : i <= j)

\* .one(): exactly one match or an exception.
One(I) ==
    IF I = {} THEN Raised("NoResultFound")
    ELSE IF Cardinality(I) > 1 THEN Raised("MultipleResultsFound")
    ELSE Returned(CHOOSE i \in I : TRUE)

RemoveAt(s, i) == SubSeq(s, 1, i - 1) \o SubSeq(s, i + 1, Len(s))

remove_chat(chat) ==
    /\ LET c == One(MatchingChats(chats, chat.chat_id))
       IN  IF c.kind = "Raised"
           THEN /\ UNCHANGED tables
                /\ last' = Done("remove_chat", "raised", c, "")
           ELSE /\ chats' = RemoveAt(chats, c.val)
                /\ UNCHANGED <<users, auths>>
                /\ last' = Done("remove_chat", "removed", NoneVal, "")
    /\ UNCHANGED <<concvars, mapvars>>

\* database.py lines 33-42: the built-in account and its empty credential.
SystemUser(id) ==
    [id |-> id, username |-> "system", email |-> "", full_name |-> "Default User",
     theme_light |-> FALSE, default_prompt |-> DefaultPrompt, is_active |-> TRUE]

seed_db ==
    /\ IF FirstByUsername(users, "system") # 0
       THEN /\ UNCHANGED tables
            /\ last' = Done("seed_db", "exists", NoneVal, "")
       ELSE /\ Len(users) < MaxUsers
            /\ \E id \in uuid4(users, auths, {}) :
                 LET us2 == Append(users, SystemUser(id))
                     e == IntegrityError(us2)
                 IN  IF e = "ok"
                     THEN /\ users' = us2
                          /\ auths' = Append(auths, [secret |-> "", auth_type |-> 0,
                                                     user_id |-> id])
                          /\ UNCHANGED chats
                          /\ last' = Done("seed_db", "created", NoneVal, "")
                     ELSE /\ UNCHANGED tables
                          /\ last' = Done("seed_db", "raised", Raised(e), "")
    /\ UNCHANGED <<concvars, mapvars>>

InitTables ==
    /\ users = <<>>
    /\ auths = <<>>
    /\ chats = <<>>

Procs == {1, 2}

IdleConc ==
    /\ pc = [p \in Procs |-> "idle"]
    /\ req = [p \in Procs |-> NoneVal]
    /\ sess = [p \in Procs |-> NoneVal]
    /\ out = [p \in Procs |-> NoneVal]
    /\ fresh = [p \in Procs |-> FALSE]

IdleMap ==
    /\ m_user = NoneVal
    /\ m_view = NoneVal
    /\ m_back = NoneVal
    /\ m_pub = NoneVal
    /\ m_step = "none"

Init ==
    /\ InitTables
    /\ last = Done("none", "", NoneVal, "")
    /\ IdleConc
    /\ IdleMap

Next ==
    \/ seed_db
    \/ \E ua \in AuthRequests : create_user(ua)
    \/ \E u \in UpdateViews : update_user(u)
    \/ \E chat \in ChatRequests : create_chat(chat)
    \/ \E chat \in ChatRequests : remove_chat(chat)

Spec == Init /\ [][Next]_vars

(***************************************************************************)
(* Properties of the calls run one after another (Spec).                   *)
(***************************************************************************)
HasUser(us, name) == \E i \in 1..Len(us) : us[i].username = name

IsPrefix(s, t) == Len(s) <= Len(t) /\ SubSeq(t, 1, Len(s)) = s

\* C1: username is unique across the stored Users in every state reached by
\* seed_db, create_user, update_user, create_chat and remove_chat calls run
\* one after another from an empty store; it is the pre-check of the calls
\* that keeps it so: no call is ever turned down by the storage's constraint
\* on username.
C1_UsernameUnique ==
    /\ \A i, j \in 1..Len(users) : users[i].username = users[j].username => i = j
    /\ last.ret # Raised("users.username")

C1_Witness ==
    /\ Len(users) = 2
    /\ last.op = "create_user"
    /\ last.note = "exists"

\* C3: create_user with a username that already has a User row returns
\* nothing and leaves the User, UserAuth and Chat rows exactly as they were,
\* whatever auth_type and secret the request carries.
C3_ExistingUsernameRejected ==
    [][\A ua \in AuthRequests :
         (last'.op = "create_user" /\ HasUser(users, ua.username) /\ create_user(ua))
            => /\ last'.ret = NoneVal
               /\ users' = users
               /\ auths' = auths
               /\ chats' = chats]_vars

C3_Witness ==
    /\ last.op = "create_user"
    /\ last.note = "exists"
    /\ last.ret = NoneVal
    /\ auths # <<>>
    /\ chats # <<>>

\* C4: create_user with a fresh username and an auth_type other than 1
\* returns nothing, adds no User row and no UserAuth row, and leaves the
\* secret of the request unhashed.
C4_UnsupportedAuthType ==
    [][\A ua \in AuthRequests :
         (/\ last'.op = "create_user"
          /\ ~HasUser(users, ua.username)
          /\ ua.auth_type # 1
          /\ create_user(ua))
            => /\ last'.ret = NoneVal
               /\ users' = users
               /\ auths' = auths
               /\ last'.secret = ua.secret]_vars

C4_Witness ==
    /\ last.op = "create_user"
    /\ last.note = "unsupported"
    /\ last.ret = NoneVal
    /\ last.secret \in Secrets

\* C5: create_user with a fresh username and auth_type = 1 returns a User
\* view for that username, and storage gains exactly one User row with that
\* username and exactly one UserAuth row, bound to that user's id, whose
\* secret is the hash of the supplied secret and not the supplied secret.
C5_CreateStoresHash ==
    [][\A ua \in AuthRequests :
         (/\ last'.op = "create_user"
          /\ ~HasUser(users, ua.username)
          /\ ua.auth_type = 1
          /\ create_user(ua))
            => /\ last'.ret.kind = "Value"
               /\ last'.ret.val.username = ua.username
               /\ Len(users') = Len(users) + 1
               /\ IsPrefix(users, users')
               /\ users'[Len(users')].username = ua.username
               /\ users'[Len(users')].id = last'.ret.val.id
               /\ Len(auths') = Len(auths) + 1
               /\ IsPrefix(auths, auths')
               /\ auths'[Len(auths')].user_id = users'[Len(users')].id
               /\ auths'[Len(auths')].auth_type = 1
               /\ auths'[Len(auths')].secret = get_password_hash(ua.secret)
               /\ auths'[Len(auths')].secret # ua.secret]_vars

C5_Witness ==
    /\ last.op = "create_user"
    /\ last.note = "created"
    /\ last.ret.kind = "Value"
    /\ Len(auths) > 0
    /\ auths[Len(auths)].secret = "$2b$$2b$pw"

\* C6: remove_chat deletes a Chat row only when exactly one stored row has
\* the given chat_id; with no match, or with more than one, it raises an error
\* and leaves the Chat rows unchanged.
C6_RemoveChatExactlyOne ==
    [][\A chat \in ChatRequests :
         (last'.op = "remove_chat" /\ remove_chat(chat))
            => LET I == {i \in 1..Len(chats) : chats[i].chat_id = chat.chat_id}
               IN  IF Cardinality(I) = 1
                   THEN /\ last'.ret = NoneVal
                        /\ \E i \in I : chats' = RemoveAt(chats, i)
                   ELSE /\ last'.ret.kind = "Raised"
                        /\ chats' = chats]_vars

C6_Witness ==
    /\ last.op = "remove_chat"
    /\ last.ret = Raised("MultipleResultsFound")
    /\ \E i, j \in 1..Len(chats) : i # j /\ chats[i].chat_id = chats[j].chat_id

\* The auth and chats collections of the stored user of a username.
StoredAuth(us, as, name) ==
    LET i == FirstByUsername(us, name)
    IN  IF i = 0 THEN <<>> ELSE AuthOf(us[i], as)

StoredChats(us, cs, name) ==
    LET i == FirstByUsername(us, name)
    IN  IF i = 0 THEN <<>> ELSE ChatsOf(us[i], cs)

\* C7: update_user never changes the auth or chats collections of the stored
\* user: whatever the auth and chats lists of the supplied view hold, the
\* UserAuth and Chat rows associated with the user of that username are the
\* same after the call as before it; with no user of that username it returns
\* nothing and changes no row.
C7_UpdateKeepsCollections ==
    [][\A u \in UpdateViews :
         (last'.op = "update_user" /\ update_user(u))
            => IF HasUser(users, u.username)
               THEN /\ StoredAuth(users', auths', u.username)
                         = StoredAuth(users, auths, u.username)
                    /\ StoredChats(users', chats', u.username)
                         = StoredChats(users, chats, u.username)
               ELSE /\ last'.ret = NoneVal
                    /\ users' = users
                    /\ auths' = auths
                    /\ chats' = chats]_vars

\* C10: in every state reached by seed_db, create_user and update_user calls,
\* User ids are pairwise distinct and the user_id of every UserAuth row is the
\* id of exactly one stored User, the one the row was created for (rows are
\* inserted in pairs and never deleted: the i-th UserAuth row was created for
\* the i-th User row).
C10_AuthBoundToItsUser ==
    /\ \A i, j \in 1..Len(users) : users[i].id = users[j].id => i = j
    /\ \A i \in 1..Len(auths) :
         /\ Cardinality({j \in 1..Len(users) : users[j].id = auths[i].user_id}) = 1
         /\ i <= Len(users)
         /\ users[i].id = auths[i].user_id

(***************************************************************************)
(* SpecConc: two request handlers inside create_user, each on its own      *)
(* session. A session's queries see the committed tables; the objects it   *)
(* has added reach the tables when it commits.                             *)
(***************************************************************************)
ConcRequests == [username : Usernames, secret : {"pw"}, auth_type : {1, 2}]

\* The identifiers held by objects that sessions have added and not committed.
PendingIds == {sess[q].user.id : q \in {r \in Procs : sess[r] # NoneVal}}

\* A handler receives a request and enters create_user.
c_call(p, ua) ==
    /\ pc[p] = "idle"
    /\ Len(users) < MaxUsers
    /\ pc' = [pc EXCEPT ![p] = "check"]
    /\ req' = [req EXCEPT ![p] = ua]
    /\ fresh' = [fresh EXCEPT ![p] = ~HasUser(users, ua.username)]
    /\ UNCHANGED <<tables, last, sess, out, mapvars>>

\* create_user lines 62-65.
c_check(p) ==
    /\ pc[p] = "check"
    /\ pc' = [pc EXCEPT ![p] =
                IF AlreadyExists(users, auths, chats, req[p]) THEN "done" ELSE "match"]
    /\ UNCHANGED <<tables, last, req, sess, out, fresh, mapvars>>

\* create_user lines 67-71.
c_match(p) ==
    /\ pc[p] = "match"
    /\ IF Supported(req[p])
       THEN /\ req' = [req EXCEPT ![p] = HashedRequest(@)]
            /\ pc' = [pc EXCEPT ![p] = "map"]
       ELSE /\ pc' = [pc EXCEPT ![p] = "done"]
            /\ UNCHANGED req
    /\ UNCHANGED <<tables, last, sess, out, fresh, mapvars>>

\* create_user lines 73-75: the new rows are built and added to the session.
c_map(p) ==
    /\ pc[p] = "map"
    /\ \E new_id \in uuid4(users, auths, PendingIds) :
         sess' = [sess EXCEPT ![p] = user_view_to_db(NoneVal, req[p], new_id).val]
    /\ pc' = [pc EXCEPT ![p] = "commit"]
    /\ UNCHANGED <<tables, last, req, out, fresh, mapvars>>

\* create_user lines 76-77: the commit, and the view returned if it went through.
c_commit(p) ==
    /\ pc[p] = "commit"
    /\ LET c == CreateCommit(users, auths, chats, sess[p])
       IN  /\ users' = c.users
           /\ auths' = c.auths
           /\ out' = [out EXCEPT ![p] = c.ret]
    /\ pc' = [pc EXCEPT ![p] = "done"]
    /\ UNCHANGED <<chats, last, req, sess, fresh, mapvars>>

\* The handler answers its request and is free for the next one.
c_return(p) ==
    /\ pc[p] = "done"
    /\ pc' = [pc EXCEPT ![p] = "idle"]
    /\ req' = [req EXCEPT ![p] = NoneVal]
    /\ sess' = [sess EXCEPT ![p] = NoneVal]
    /\ out' = [out EXCEPT ![p] = NoneVal]
    /\ fresh' = [fresh EXCEPT ![p] = FALSE]
    /\ UNCHANGED <<tables, last, mapvars>>

NextConc ==
    \/ \E p \in Procs, ua \in ConcRequests : c_call(p, ua)
    \/ \E p \in Procs : c_check(p)
    \/ \E p \in Procs : c_match(p)
    \/ \E p \in Procs : c_map(p)
    \/ \E p \in Procs : c_commit(p)
    \/ \E p \in Procs : c_return(p)

SpecConc == Init /\ [][NextConc]_vars

\* A finished call succeeded: it returned a user, and a User row of the
\* requested username is in storage.
Succeeded(p) ==
    /\ pc[p] = "done"
    /\ out[p].kind = "Value"
    /\ HasUser(users, req[p].username)

MaxColl == 2        \* rows a persisted user's auth or chats collection may hold

SeqsUpTo(S, n) == UNION {[1..k -> S] : k \in 0..n}

SecretPool == {"", "pw", "$2b$pw"}

AuthRowsOf(id) ==
    {[secret |-> "", auth_type |-> 0, user_id |-> id],
     [secret |-> "$2b$pw", auth_type |-> 1, user_id |-> id]}

ChatRowsOf(name) == {[chat_id |-> c, owner |-> name] : c \in ChatIds}

PersistedUsersNamed(n) ==
    {[id |-> 1, username |-> n, is_active |-> a, email |-> e, full_name |-> f,
      theme_light |-> t, default_prompt |-> d, auth |-> au, chats |-> ch] :
        a \in BOOLEAN, e \in {"", "a@x"}, f \in FullNames,
        t \in BOOLEAN, d \in {DefaultPrompt, "p"},
        au \in SeqsUpTo(AuthRowsOf(1), MaxColl),
        ch \in SeqsUpTo(ChatRowsOf(n), MaxColl)}

PersistedUsers == UNION {PersistedUsersNamed(n) : n \in Usernames}

\* A to_public_dict that masks the password credentials only.
to_public_dict_PasswordOnly(self) ==
    [dict |-> [self EXCEPT !.auth =
                 [i \in DOMAIN @ |->
                    IF @[i].auth_type = 1 THEN [@[i] EXCEPT !.secret = MASK] ELSE @[i]]],
     self |-> self]

\* User.to_public_dict: the masked copy it returns (dict), and the view
\* itself afterwards (self): self.dict() copies, the view is not written.
to_public_dict(self) ==
    LET user_dict == self
    IN  [dict |-> [user_dict EXCEPT !.auth =
                     [i \in DOMAIN @ |-> [@[i] EXCEPT !.secret = MASK]]],
         self |-> self]

InitMap ==
    /\ InitTables
    /\ last = Done("none", "", NoneVal, "")
    /\ IdleConc
    /\ m_user \in PersistedUsers
    /\ m_view = NoneVal
    /\ m_back = NoneVal
    /\ m_pub = NoneVal
    /\ m_step = "start"

m_to_view(include_auth) ==
    /\ m_step \in {"start", "back", "back_auth", "public", "public_auth"}
    /\ m_view' = user_db_to_view(m_user, include_auth)
    /\ m_step' = IF include_auth THEN "view_auth" ELSE "view"
    /\ m_back' = NoneVal
    /\ m_pub' = NoneVal
    /\ UNCHANGED <<tables, last, concvars, m_user>>

m_to_db ==
    /\ m_step \in {"view", "view_auth"}
    /\ m_back' = user_view_to_db(m_view, NoneVal, 0)
    /\ m_step' = IF m_step = "view" THEN "back" ELSE "back_auth"
    /\ UNCHANGED <<tables, last, concvars, m_user, m_view, m_pub>>

m_public ==
    /\ m_step \in {"view", "view_auth"}
    /\ LET r == to_public_dict(m_view)
       IN  /\ m_pub' = r.dict
           /\ m_view' = r.self
    /\ m_step' = IF m_step = "view" THEN "public" ELSE "public_auth"
    /\ UNCHANGED <<tables, last, concvars, m_user, m_back>>

NextMap ==
    \/ \E include_auth \in BOOLEAN : m_to_view(include_auth)
    \/ m_to_db
    \/ m_public

SpecMap == InitMap /\ [][NextMap]_vars

\* The views that differ from v in auth secrets only.
SecretVariants(v) ==
    {[v EXCEPT !.auth = [i \in DOMAIN @ |-> [@[i] EXCEPT !.secret = f[i]]]] :
        f \in [DOMAIN v.auth -> SecretPool]}

\* C8: the public serialization of a User view carries the same fixed mask
\* in place of the secret of every entry of its auth collection, whatever the
\* secret was: every view that differs only in auth secrets serializes to
\* the same dictionary, and the view's own secrets stay as they were.
C8_PublicDictMasksSecrets ==
    m_step \in {"public", "public_auth"} =>
        /\ \A k \in ScalarFields \cup {"chats"} : m_pub[k] = m_view[k]
        /\ DOMAIN m_pub.auth = DOMAIN m_view.auth
        /\ \A i \in DOMAIN m_pub.auth :
             m_pub.auth[i] = [m_view.auth[i] EXCEPT !.secret = MASK]
        /\ \A w \in SecretVariants(m_view) : to_public_dict(w).dict = m_pub
        /\ m_view = user_db_to_view(m_user, m_step = "public_auth")

C8_Witness ==
    /\ m_step = "public_auth"
    /\ Len(m_view.auth) = 2
    /\ m_view.auth[1].secret # m_view.auth[2].secret
    /\ m_pub.auth[1].secret = MASK
    /\ m_pub.auth[2].secret = MASK

RoundTripFields ==
    {"username", "email", "full_name", "theme_light", "default_prompt", "is_active"}

\* C9: for any persisted User, with any auth and chats collections, mapping
\* it to a view with user_db_to_view and the view back with user_view_to_db
\* yields a persisted User with the same username, email, full_name,
\* theme_light, default_prompt and is_active.
C9_RoundTripPreservesScalars ==
    m_step = "back" =>
        /\ m_back.kind = "Value"
        /\ \A k \in RoundTripFields : m_back.val.user[k] = m_user[k]

====
